---- MODULE Spec2Model ----
(***************************************************************************)
(* Radical composition index of kanjireader: the build pipeline of         *)
(* build_database.py (composition index, inverse index, stroke-count       *)
(* post-processing, decomposition graph) and the radical queries of        *)
(* debug_android_search.py, test_final_meat_search.py and                  *)
(* test_hierarchical_search.py that read the database it writes.           *)
(*                                                                         *)
(* Glyphs are written with ASCII names:                                    *)
(*   gun ｜ (U+FF5C)   gunCn 丨 (U+4E28)   ren 人      renLeft 亻         *)
(*   jiong 冂          rou 肉              bing 仌     huo 火             *)
(*   huoDots 灬        huoRad ⺣           pie 丿      no ノ              *)
(*   yinHook 乚        yi 乙               ba 丷       dian 丶            *)
(*   zhe 𠃌            qi 𠂉               idc ⿰ (any of ⿰..⿻)           *)
(* A Python str is a sequence of one-character tokens; every glyph is one  *)
(* token, "," and " " are the separators the code joins and splits on.     *)
(***************************************************************************)
EXTENDS Integers, Sequences, FiniteSets, TLC

VARIABLES
    kradfile,       \* kradfile.json: NoFile, or its 'kanji' object in file order
    radkfile,       \* radkfile.json: NoFile, or its 'radicals' object
    makemeahanzi,   \* dictionary.txt as downloaded: NoFile, or its lines
    db,             \* the SQLite file at output_path, as committed
    phase,          \* position of build_database
    error,          \* why the last build stopped early ("none" otherwise)
    query           \* outcome of the last query run against the current db

vars == <<kradfile, radkfile, makemeahanzi, db, phase, error, query>>

----------------------------------------------------------------------------
(* Bounds of the model *)

\* longest radical selection a query is given
MaxSel == 2
\* longest component list of one kradfile entry
MaxComps == 2
\* nested calls of apply_substitutions_and_expansion CPython allows before
\* RecursionError (sys.getrecursionlimit(), far above any acyclic chain)
RecursionLimit == 4
\* longest raw decomposition string given to the parser, in characters
MaxRaw == 3

----------------------------------------------------------------------------
(* Glyph tables *)

CodePoint ==
    [g \in {"huoRad", "no", "gunCn", "dian", "ba", "pie", "yi", "yinHook",
            "ren", "renLeft", "bing", "jiong", "huo", "huoDots", "rou",
            "gun", "zhe", "qi"} |->
        CASE g = "huoRad"  -> 11939
          [] g = "no"      -> 12494
          [] g = "gunCn"   -> 20008
          [] g = "dian"    -> 20022
          [] g = "ba"      -> 20023
          [] g = "pie"     -> 20031
          [] g = "yi"      -> 20057
          [] g = "yinHook" -> 20058
          [] g = "ren"     -> 20154
          [] g = "renLeft" -> 20155
          [] g = "bing"    -> 20172
          [] g = "jiong"   -> 20866
          [] g = "huo"     -> 28779
          [] g = "huoDots" -> 28780
          [] g = "rou"     -> 32905
          [] g = "gun"     -> 65372
          [] g = "zhe"     -> 131276
          [] g = "qi"      -> 131209]

\* a file that is absent (or cannot be read), and a file holding `data`
NoFile == [exists |-> FALSE, data |-> <<>>]
File(data) == [exists |-> TRUE, data |-> data]

\* Python's None, and a loaded value
None == [some |-> FALSE, value |-> <<>>]
Some(value) == [some |-> TRUE, value |-> value]

EmptyMap == [x \in {} |-> x]

Range(s) == {s[i] : i \in DOMAIN s}

idc_chars == {"idc"}

chinese_to_japanese_substitutions ==
    [c \in {"huoDots", "gunCn", "pie", "yinHook", "renLeft"} |->
        CASE c = "huoDots" -> "huoRad"
          [] c = "gunCn"   -> "gun"
          [] c = "pie"     -> "no"
          [] c = "yinHook" -> "yi"
          [] c = "renLeft" -> "ren"]

manual_corrections ==
    [r \in {"ba", "rou"} |->
        CASE r = "ba"  -> <<"dian", "dian">>
          [] r = "rou" -> <<"jiong", "ren", "ren">>]

important_single_decompositions == {"jiong", "huoRad"}

----------------------------------------------------------------------------
(* Python str and list helpers *)

\* sep.join(list) for a list of one-character strings
RECURSIVE Join(_, _)
Join(sep, list) ==
    IF list = <<>> THEN <<>>
    ELSE IF Len(list) = 1 THEN <<list[1]>>
    ELSE <<list[1]>> \o sep \o Join(sep, Tail(list))

\* s.strip() of a token sequence
RECURSIVE Strip(_)
Strip(s) ==
    IF s = <<>> THEN <<>>
    ELSE IF s[1] = " " THEN Strip(Tail(s))
    ELSE IF s[Len(s)] = " " THEN Strip(SubSeq(s, 1, Len(s) - 1))
    ELSE s

\* s.split(","): the pieces between commas, "" included
RECURSIVE SplitComma(_, _)
SplitComma(s, piece) ==
    IF s = <<>> THEN <<piece>>
    ELSE IF s[1] = "," THEN <<piece>> \o SplitComma(Tail(s), <<>>)
    ELSE SplitComma(Tail(s), Append(piece, s[1]))

\* a stripped piece as a string: a glyph, or "" for the empty piece
PieceStr(p) == IF p = <<>> THEN "" ELSE p[1]

\* [c.strip() for c in s.split(",")]
SplitStrip(s) ==
    LET pieces == SplitComma(s, <<>>)
    IN  [i \in DOMAIN pieces |-> PieceStr(Strip(pieces[i]))]

\* sorted(list) of one-character strings: by code point, repeats kept
RECURSIVE Insert(_, _)
Insert(x, s) ==
    IF s = <<>> THEN <<x>>
    ELSE IF CodePoint[x] < CodePoint[s[1]] THEN <<x>> \o s
    ELSE <<s[1]>> \o Insert(x, Tail(s))

RECURSIVE sorted(_)
sorted(list) ==
    IF list = <<>> THEN <<>> ELSE Insert(list[1], sorted(Tail(list)))

\* [x for x in list if x in keep]
Filter(list, keep) == SelectSeq(list, LAMBDA x : x \in keep)

----------------------------------------------------------------------------
(* Composition Index Builder *)

\* load_kradfile_data / load_radkfile_data: None for a missing file
load_kradfile_data(file) == IF ~file.exists THEN None ELSE Some(file.data)
load_radkfile_data(file) == IF ~file.exists THEN None ELSE Some(file.data)

\* Python truthiness of a loaded snapshot: None and {} are false
Truthy(data) == data.some /\ DOMAIN data.value /= {}

\* info.get(key, default) on a radkfile entry; an absent key is <<>>, a
\* present one <<value>>
InfoGet(info, key, default) ==
    IF info[key] = <<>> THEN default ELSE info[key][1]

\* populate_kanji_radical_mapping: kanji -> ", ".join(components)
populate_kanji_radical_mapping(table, kradfile_data) ==
    LET keys == {kradfile_data[i].kanji : i \in DOMAIN kradfile_data}
        entry(k) == CHOOSE i \in DOMAIN kradfile_data : kradfile_data[i].kanji = k
    IN  [k \in keys |-> Join(<<",", " ">>, kradfile_data[entry(k)].components)]
        @@ table

\* the kanji appended to radical's list while one entry's components are read
RECURSIVE Occurrences(_, _, _)
Occurrences(radical, kanji, components) ==
    IF components = <<>> THEN <<>>
    ELSE (IF components[1] = radical THEN <<kanji>> ELSE <<>>)
         \o Occurrences(radical, kanji, Tail(components))

\* radical_to_kanji[radical] after the inversion loop over kradfile_data
RECURSIVE KanjiOf(_, _)
KanjiOf(radical, kradfile_data) ==
    IF kradfile_data = <<>> THEN <<>>
    ELSE Occurrences(radical, kradfile_data[1].kanji,
                     kradfile_data[1].components)
         \o KanjiOf(radical, Tail(kradfile_data))

radical_to_kanji(kradfile_data) ==
    LET radicals == UNION {Range(kradfile_data[i].components) :
                              i \in DOMAIN kradfile_data}
    IN  [r \in radicals |-> KanjiOf(r, kradfile_data)]

radical_stroke_counts(radkfile_data) ==
    IF Truthy(radkfile_data)
    THEN [r \in DOMAIN radkfile_data.value |->
             InfoGet(radkfile_data.value[r], "strokeCount", 0)]
    ELSE EmptyMap

\* the row written for a radical of the kradfile inversion
KradfileRow(kanji_list, radical, stroke_counts) ==
    [stroke_count |-> IF radical \in DOMAIN stroke_counts
                      THEN stroke_counts[radical] ELSE 1,
     kanji_list   |-> Join(<<",", " ">>, sorted(kanji_list))]

\* the row written for a radical that only radkfile knows
\* variant: a radical only radkfile knows is written without characters
RadkfileRow_NoCharacters(info) ==
    [stroke_count |-> InfoGet(info, "strokeCount", 0),
     kanji_list   |-> <<>>]

RadkfileRow(info) ==
    [stroke_count |-> InfoGet(info, "strokeCount", 0),
     kanji_list   |-> Join(<<",", " ">>, InfoGet(info, "kanji", <<>>))]

populate_radical_kanji_mapping_from_kradfile(table, kradfile_data, radkfile_data) ==
    LET inverted == radical_to_kanji(kradfile_data)
        counts   == radical_stroke_counts(radkfile_data)
        fromKrad == [r \in DOMAIN inverted |->
                        KradfileRow(inverted[r], r, counts)]
        radkOnly == IF Truthy(radkfile_data)
                    THEN [r \in DOMAIN radkfile_data.value \ DOMAIN inverted |->
                             RadkfileRow(radkfile_data.value[r])]
                    ELSE EmptyMap
    IN  radkOnly @@ fromKrad @@ table

\* populate_radical_kanji_mapping (legacy method, radkfile alone)
\* variant: the legacy method writes no row
populate_radical_kanji_mapping_Nothing(table, radkfile_data) == table

populate_radical_kanji_mapping(table, radkfile_data) ==
    [r \in DOMAIN radkfile_data |-> RadkfileRow(radkfile_data[r])] @@ table

\* variant: the kanji lists of the inversion are left as they are
PostProcess_KeepsLists(table, radkfile_data) == table

\* POST-PROCESSING of build_database: UPDATE ... SET kanji_list WHERE radical
PostProcess(table, radkfile_data) ==
    [r \in DOMAIN table |->
        IF r \in DOMAIN radkfile_data
           /\ InfoGet(radkfile_data[r], "kanji", <<>>) /= <<>>
        THEN [table[r] EXCEPT !.kanji_list =
                 Join(<<",", " ">>, InfoGet(radkfile_data[r], "kanji", <<>>))]
        ELSE table[r]]

----------------------------------------------------------------------------
(* Decomposition Graph Builder *)

\* parse_makemeahanzi_decomposition: drop IDC symbols and whitespace
\* variant: only a marker that opens the string is dropped
parse_makemeahanzi_decomposition_LeadingMarker(decomposition) ==
    IF decomposition = <<>> THEN <<>>
    ELSE IF decomposition[1] \in idc_chars
    THEN SelectSeq(Tail(decomposition), LAMBDA char : Strip(<<char>>) /= <<>>)
    ELSE SelectSeq(decomposition, LAMBDA char : Strip(<<char>>) /= <<>>)

parse_makemeahanzi_decomposition(decomposition) ==
    IF decomposition = <<>> THEN <<>>
    ELSE SelectSeq(decomposition,
                   LAMBDA char : char \notin idc_chars /\ Strip(<<char>>) /= <<>>)

\* load_makemeahanzi_decomposition_data: character -> components, composites
\* only. A line is a JSON object ("entry"), text json.loads rejects
\* ("invalid_json", JSONDecodeError, skipped) or JSON that is no object
\* ("not_object": entry.get raises AttributeError, which only the outer
\* handler catches). [ok |-> FALSE] when the outer handler was reached.
RECURSIVE LoadLines(_, _)
LoadLines(lines, acc) ==
    IF lines = <<>> THEN [ok |-> TRUE, data |-> acc]
    ELSE LET entry == lines[1]
             components == parse_makemeahanzi_decomposition(entry.decomposition)
         IN  IF entry.kind = "invalid_json"
             THEN LoadLines(Tail(lines), acc)
             ELSE IF entry.kind = "not_object"
             THEN [ok |-> FALSE, data |-> acc]
             ELSE IF /\ entry.character /= ""
                     /\ entry.decomposition /= <<>>
                     /\ Len(components) > 1
             THEN LoadLines(Tail(lines),
                            (entry.character :> components) @@ acc)
             ELSE LoadLines(Tail(lines), acc)

load_makemeahanzi_decomposition_data(file) ==
    IF ~file.exists THEN EmptyMap
    ELSE LET loaded == LoadLines(file.data, EmptyMap)
         IN  IF loaded.ok THEN loaded.data ELSE EmptyMap

\* apply_substitutions_and_expansion, with the depth of the Python call stack:
\* [ok |-> TRUE, out |-> list], or ok = FALSE when the recursion limit is hit
RECURSIVE apply_substitutions_and_expansion(_, _, _, _)
RECURSIVE ExpandComponent(_, _, _, _)

\* variant: the substitution map is consulted for the listed components
\* only, not for the components an expansion brings in
ExpandComponent_SubstituteListedOnly(comp, decomposition_data, existing_radicals, depth) ==
    IF comp \in DOMAIN chinese_to_japanese_substitutions /\ depth = 1
    THEN [ok |-> TRUE, out |-> <<chinese_to_japanese_substitutions[comp]>>]
    ELSE IF comp \notin existing_radicals /\ comp \in DOMAIN decomposition_data
    THEN IF comp /= "bing"
         THEN apply_substitutions_and_expansion(decomposition_data[comp],
                  decomposition_data, existing_radicals, depth + 1)
         ELSE [ok |-> TRUE, out |-> <<"ren", "ren">>]
    ELSE [ok |-> TRUE, out |-> <<comp>>]

\* variant: a component found in the vocabulary is kept before the
\* substitution map is consulted
ExpandComponent_VocabularyFirst(comp, decomposition_data, existing_radicals, depth) ==
    IF comp \in existing_radicals
    THEN [ok |-> TRUE, out |-> <<comp>>]
    ELSE IF comp \in DOMAIN chinese_to_japanese_substitutions
    THEN [ok |-> TRUE, out |-> <<chinese_to_japanese_substitutions[comp]>>]
    ELSE IF comp \in DOMAIN decomposition_data
    THEN IF comp /= "bing"
         THEN apply_substitutions_and_expansion(decomposition_data[comp],
                  decomposition_data, existing_radicals, depth + 1)
         ELSE [ok |-> TRUE, out |-> <<"ren", "ren">>]
    ELSE [ok |-> TRUE, out |-> <<comp>>]

\* variant: a component the raw source decomposes is expanded before the
\* substitution map is consulted
ExpandComponent_ExpansionFirst(comp, decomposition_data, existing_radicals, depth) ==
    IF comp \notin existing_radicals /\ comp \in DOMAIN decomposition_data
    THEN IF comp /= "bing"
         THEN apply_substitutions_and_expansion(decomposition_data[comp],
                  decomposition_data, existing_radicals, depth + 1)
         ELSE [ok |-> TRUE, out |-> <<"ren", "ren">>]
    ELSE IF comp \in DOMAIN chinese_to_japanese_substitutions
    THEN [ok |-> TRUE, out |-> <<chinese_to_japanese_substitutions[comp]>>]
    ELSE [ok |-> TRUE, out |-> <<comp>>]

\* variant: bing is expanded from its raw entry like any other component
ExpandComponent_NoIceCase(comp, decomposition_data, existing_radicals, depth) ==
    IF comp \in DOMAIN chinese_to_japanese_substitutions
    THEN [ok |-> TRUE, out |-> <<chinese_to_japanese_substitutions[comp]>>]
    ELSE IF comp \notin existing_radicals /\ comp \in DOMAIN decomposition_data
    THEN apply_substitutions_and_expansion(decomposition_data[comp],
             decomposition_data, existing_radicals, depth + 1)
    ELSE [ok |-> TRUE, out |-> <<comp>>]

ExpandComponent(comp, decomposition_data, existing_radicals, depth) ==
    IF comp \in DOMAIN chinese_to_japanese_substitutions
    THEN [ok |-> TRUE, out |-> <<chinese_to_japanese_substitutions[comp]>>]
    ELSE IF comp \notin existing_radicals /\ comp \in DOMAIN decomposition_data
    THEN IF comp /= "bing"
         THEN apply_substitutions_and_expansion(decomposition_data[comp],
                  decomposition_data, existing_radicals, depth + 1)
         ELSE [ok |-> TRUE, out |-> <<"ren", "ren">>]
    ELSE [ok |-> TRUE, out |-> <<comp>>]

apply_substitutions_and_expansion(components, decomposition_data, existing_radicals, depth) ==
    IF depth > RecursionLimit THEN [ok |-> FALSE, out |-> <<>>]
    ELSE IF components = <<>> THEN [ok |-> TRUE, out |-> <<>>]
    ELSE LET head == ExpandComponent(components[1], decomposition_data,
                                     existing_radicals, depth)
         IN  IF ~head.ok THEN head
             ELSE LET rest == apply_substitutions_and_expansion(
                                  Tail(components), decomposition_data,
                                  existing_radicals, depth)
                  IN  IF ~rest.ok THEN rest
                      ELSE [ok |-> TRUE, out |-> head.out \o rest.out]

\* a row of radical_decomposition_mapping
DecompositionRow(valid_components) ==
    [components      |-> Join(<<",">>, valid_components),
     component_count |-> Len(valid_components)]

\* variant: the statement leaves no other row in the table
InsertOrReplace_Alone(table, radical, row) == (radical :> row)

\* variant: a row found for the radical is extended, not replaced
InsertOrReplace_Accumulate(table, radical, row) ==
    IF radical \in DOMAIN table
    THEN [table EXCEPT ![radical] =
             [components      |-> @.components \o <<",">> \o row.components,
              component_count |-> @.component_count + row.component_count]]
    ELSE (radical :> row) @@ table

\* INSERT OR REPLACE INTO radical_decomposition_mapping: radical is the
\* primary key
InsertOrReplace(table, radical, row) == (radical :> row) @@ table

\* the INSERT OR REPLACE statements of one loop, one per row
RECURSIVE InsertAll(_, _)
InsertAll(table, rows) ==
    IF DOMAIN rows = {} THEN table
    ELSE LET radical == CHOOSE r \in DOMAIN rows : TRUE
         IN  InsertAll(InsertOrReplace(table, radical, rows[radical]),
                       [r \in DOMAIN rows \ {radical} |-> rows[r]])

\* the manual-correction loop
\* variant: the manual list is stored as written
ManualValid_Unfiltered(radical, existing_radicals) ==
    manual_corrections[radical]

\* variant: a glyph the manual list repeats is kept once
ManualValid_Distinct(radical, existing_radicals) ==
    LET valid == Filter(manual_corrections[radical], existing_radicals)
    IN  SelectSeq([i \in DOMAIN valid |->
                      IF \E j \in 1..(i - 1) : valid[j] = valid[i]
                      THEN "" ELSE valid[i]],
                  LAMBDA x : x /= "")

ManualValid(radical, existing_radicals) ==
    Filter(manual_corrections[radical], existing_radicals)

ManualStored(existing_radicals) ==
    {r \in DOMAIN manual_corrections :
        r \in existing_radicals /\ Len(ManualValid(r, existing_radicals)) > 1}

\* the radicals the generic loop resolves
\* variant: the generic loop does not skip the manually corrected radicals
GenericCandidates_WithManual(decomposition_data, existing_radicals) ==
    {r \in DOMAIN decomposition_data : r \in existing_radicals}

\* variant: the generic loop takes every key of the raw source
GenericCandidates_AnyKey(decomposition_data, existing_radicals) ==
    {r \in DOMAIN decomposition_data : r \notin DOMAIN manual_corrections}

\* variant: the generic loop skips a manually corrected radical only when
\* its manual edge was stored
GenericCandidates_ManualFallback(decomposition_data, existing_radicals) ==
    {r \in DOMAIN decomposition_data :
        r \notin ManualStored(existing_radicals) /\ r \in existing_radicals}

GenericCandidates(decomposition_data, existing_radicals) ==
    {r \in DOMAIN decomposition_data :
        r \notin DOMAIN manual_corrections /\ r \in existing_radicals}

GenericExpanded(radical, decomposition_data, existing_radicals) ==
    apply_substitutions_and_expansion(decomposition_data[radical],
        decomposition_data, existing_radicals, 1)

GenericValid(radical, decomposition_data, existing_radicals) ==
    Filter(GenericExpanded(radical, decomposition_data, existing_radicals).out,
           existing_radicals)

\* variant: one valid component is enough for every radical
min_components_AlwaysOne(radical) == 1

\* variant: two valid components are asked of every radical
min_components_AlwaysTwo(radical) == 2

min_components(radical) ==
    IF radical \in important_single_decompositions THEN 1 ELSE 2

GenericStored(decomposition_data, existing_radicals) ==
    {r \in GenericCandidates(decomposition_data, existing_radicals) :
        Len(GenericValid(r, decomposition_data, existing_radicals))
            >= min_components(r)}

\* populate_radical_decomposition_mapping: the table after its commit, or
\* ok = FALSE when a generic expansion raised RecursionError before the commit
populate_radical_decomposition_mapping(table, decomposition_data, existing_radicals) ==
    LET manual  == [r \in ManualStored(existing_radicals) |->
                       DecompositionRow(ManualValid(r, existing_radicals))]
        raised  == \E r \in GenericCandidates(decomposition_data, existing_radicals) :
                       ~GenericExpanded(r, decomposition_data, existing_radicals).ok
        generic == [r \in GenericStored(decomposition_data, existing_radicals) |->
                       DecompositionRow(
                           GenericValid(r, decomposition_data, existing_radicals))]
    IN  IF raised THEN [ok |-> FALSE, table |-> table]
        ELSE [ok |-> TRUE,
              table |-> InsertAll(InsertAll(table, manual), generic)]

----------------------------------------------------------------------------
(* Hierarchical Expansion & Query Engine *)

\* SELECT radical FROM radical_decomposition_mapping WHERE components LIKE
\* '%component%': the rows whose components string holds the glyph
LikeComposites(decomposition_table, component) ==
    {r \in DOMAIN decomposition_table :
        component \in Range(decomposition_table[r].components)}

\* the composites kept after the exact check on the split component list
\* variant: no composite is added to the selected radical
ExpansionFor_SelfOnly(decomposition_table, component) ==
    {component} \cup
    {r \in LikeComposites(decomposition_table, component) : r = component}

ExpansionFor(decomposition_table, component) ==
    {component} \cup
    {r \in LikeComposites(decomposition_table, component) :
        component \in Range(SplitStrip(decomposition_table[r].components))}

\* Step 2: radical_to_kanji_sets[radical], present only for a non-empty list
HasKanji(kanji_table, radical) ==
    radical \in DOMAIN kanji_table /\ kanji_table[radical].kanji_list /= <<>>

KanjiSet(kanji_table, radical) ==
    Range(SplitStrip(kanji_table[radical].kanji_list))

\* Step 3: the kanji that satisfy one selected radical
SatisfiedKanji(database, original_radical) ==
    UNION {KanjiSet(database.radical_kanji_mapping, x) :
              x \in {y \in ExpansionFor(database.radical_decomposition_mapping,
                                        original_radical) :
                        HasKanji(database.radical_kanji_mapping, y)}}

\* set.intersection(*sets) of a non-empty list of sets
Intersection(sets) ==
    {k \in sets[1] : \A i \in DOMAIN sets : k \in sets[i]}

NoQuery == [script |-> "none", selected |-> <<>>, status |-> "none", result |-> {}]

\* debug_android_search, for a selection in place of its ['gun', 'ren']
debug_android_search(database, selected_radicals) ==
    IF ~database.exists
    THEN [script |-> "debug_android_search", selected |-> selected_radicals,
          status |-> "not_found", result |-> {}]
    ELSE LET satisfied == [i \in DOMAIN selected_radicals |->
                              SatisfiedKanji(database, selected_radicals[i])]
         IN  IF satisfied /= <<>>
             THEN [script |-> "debug_android_search",
                   selected |-> selected_radicals,
                   status |-> "ok", result |-> Intersection(satisfied)]
             ELSE [script |-> "debug_android_search",
                   selected |-> selected_radicals,
                   status |-> "no_sets", result |-> {}]

\* Step 1 of test_final_meat_search: both key decompositions are stored
KeyDecompositionsExist(decomposition_table) ==
    /\ "jiong" \in DOMAIN decomposition_table
    /\ "gun" \in Range(decomposition_table["jiong"].components)
    /\ "rou" \in DOMAIN decomposition_table
    /\ "jiong" \in Range(decomposition_table["rou"].components)
    /\ "ren" \in Range(decomposition_table["rou"].components)

\* test_final_meat_search, for a selection in place of its ['gun', 'ren']
test_final_meat_search(database, selected_radicals) ==
    IF ~database.exists
    THEN [script |-> "test_final_meat_search", selected |-> selected_radicals,
          status |-> "not_found", result |-> {}]
    ELSE IF ~KeyDecompositionsExist(database.radical_decomposition_mapping)
    THEN [script |-> "test_final_meat_search", selected |-> selected_radicals,
          status |-> "decomposition_missing", result |-> {}]
    ELSE LET satisfied == [i \in DOMAIN selected_radicals |->
                              SatisfiedKanji(database, selected_radicals[i])]
         IN  IF Len(satisfied) = 2
             THEN [script |-> "test_final_meat_search",
                   selected |-> selected_radicals, status |-> "ok",
                   result |-> satisfied[1] \cap satisfied[2]]
             ELSE [script |-> "test_final_meat_search",
                   selected |-> selected_radicals,
                   status |-> "intersection_error", result |-> {}]

\* Test 3 of test_hierarchical_search: a stored edge of ba lists dian
BaDecompositionWrong(decomposition_table) ==
    /\ "ba" \in DOMAIN decomposition_table
    /\ "dian" \notin Range(SplitStrip(decomposition_table["ba"].components))

\* Test 4: the selection with every composite that lists one of its radicals
ExpandedRadicals(decomposition_table, selected_radicals) ==
    UNION {ExpansionFor(decomposition_table, selected_radicals[i]) :
              i \in DOMAIN selected_radicals}

\* Test 5: the kanji of the expanded radicals that satisfy one original
OriginalSatisfaction(database, expanded_radicals, original) ==
    LET satisfying_radicals ==
            {expanded \in expanded_radicals :
                \/ expanded = original
                \/ /\ expanded \in DOMAIN database.radical_decomposition_mapping
                   /\ original \in Range(SplitStrip(
                          database.radical_decomposition_mapping[expanded].components))}
    IN  UNION {KanjiSet(database.radical_kanji_mapping, radical) :
                  radical \in {x \in satisfying_radicals :
                                  HasKanji(database.radical_kanji_mapping, x)}}

\* test_hierarchical_search, for a selection in place of its ['ren', 'dian']
test_hierarchical_search(database, selected_radicals) ==
    LET outcome(status, result) ==
            [script |-> "test_hierarchical_search",
             selected |-> selected_radicals,
             status |-> status, result |-> result]
        decomposition_table == database.radical_decomposition_mapping
        expanded_radicals == ExpandedRadicals(decomposition_table, selected_radicals)
        radical_kanji_sets ==
            {radical \in expanded_radicals :
                HasKanji(database.radical_kanji_mapping, radical)}
        original_satisfaction ==
            [original \in Range(selected_radicals) |->
                OriginalSatisfaction(database, expanded_radicals, original)]
    IN  IF ~database.exists THEN outcome("not_found", {})
        ELSE IF BaDecompositionWrong(decomposition_table)
        THEN outcome("decomposition_missing", {})
        ELSE IF Cardinality(radical_kanji_sets) < Len(selected_radicals)
        THEN outcome("not_enough_radicals", {})
        ELSE IF Cardinality(DOMAIN original_satisfaction) /= Len(selected_radicals)
        THEN outcome("not_all_satisfied", {})
        ELSE outcome("ok",
                 {k \in UNION Range(original_satisfaction) :
                     \A original \in DOMAIN original_satisfaction :
                         k \in original_satisfaction[original]})

----------------------------------------------------------------------------
(* Source snapshots the build may find on disk *)

KradRadicals == {"ren", "jiong"}
SelRadicals == {"gun", "ren"}

SeqsUpTo(S, n) == UNION {[1..m -> S] : m \in 1..n}

Compositions == SeqsUpTo(KradRadicals, MaxComps)

KradEntry(kanji, components) == [kanji |-> kanji, components |-> components]

KradSnapshots ==
    {NoFile}
    \cup {File(<<KradEntry("rou", c)>>) : c \in Compositions}
    \cup {File(<<KradEntry("rou", c), KradEntry("huo", <<"ren">>)>>) :
             c \in Compositions}

BaseKradfile ==
    File(<<KradEntry("rou", <<"jiong", "ren">>), KradEntry("huo", <<"huo">>)>>)

FullVocabulary == {"gun", "ren", "jiong", "rou", "huo"}

RadkInfo(strokeCount, kanji) == [strokeCount |-> strokeCount, kanji |-> kanji]

RadkDict(radicals, renInfo) ==
    [r \in radicals |-> IF r = "ren" THEN renInfo ELSE RadkInfo(<<3>>, <<>>)]

\* the entry of ren always carries its kanji list, which build_database
\* reads with radkfile_data['ren']['kanji']
RenInfos ==
    {RadkInfo(sc, k) : sc \in {<<>>, <<2>>},
                       k \in {<<<<>>>>, <<<<"huo">>>>, <<<<"rou", "huo">>>>}}

RadkSnapshots ==
    {NoFile}
    \cup {File(RadkDict(FullVocabulary, info)) : info \in RenInfos}
    \cup {File(RadkDict({"ren", "rou", "huo"}, RadkInfo(<<2>>, <<<<>>>>))),
          File(RadkDict(FullVocabulary \cup {"gunCn"}, RadkInfo(<<2>>, <<<<>>>>)))}

VocabularyRadkfiles ==
    {File(RadkDict(FullVocabulary, RadkInfo(<<2>>, <<<<>>>>))),
     File(RadkDict(FullVocabulary \cup {"gunCn"}, RadkInfo(<<2>>, <<<<>>>>)))}

Line(character, components) ==
    [kind |-> "entry", character |-> character,
     decomposition |-> <<"idc">> \o components]

\* the lines of dictionary.txt: each character at most once, in file order
OptionalLine(character, decompositions) ==
    {<<>>} \cup {<<Line(character, d)>> : d \in decompositions}

RawSnapshots ==
    {File(rou \o jiong \o huo \o qi \o bing) :
        rou   \in OptionalLine("rou", {<<"jiong", "bing">>, <<"gunCn", "ren">>}),
        jiong \in OptionalLine("jiong", {<<"gunCn", "zhe">>, <<"gun">>}),
        huo   \in OptionalLine("huo",
                     {<<a, b>> : a \in {"ren", "jiong", "qi", "bing", "gunCn"},
                                 b \in {"ren", "zhe"}}),
        qi    \in OptionalLine("qi", {<<"gunCn", "ren">>, <<"qi", "ren">>,
                                      <<"bing", "jiong">>}),
        bing  \in OptionalLine("bing", {<<"bing", "ren">>})}

BaseRawfile ==
    File(<<Line("rou", <<"jiong", "bing">>), Line("jiong", <<"gunCn", "zhe">>)>>)

\* the base source with an entry for huo that lists a glyph nobody knows
LongRawfile ==
    File(BaseRawfile.data \o <<Line("huo", <<"ren", "zhe", "ren">>)>>)

\* a line the loader cannot use: rejected by json.loads, JSON that is no
\* object, or an object without its fields
BadLine(kind) == [kind |-> kind, character |-> "", decomposition |-> <<>>]

InsertAt(lines, position, line) ==
    SubSeq(lines, 1, position) \o <<line>>
        \o SubSeq(lines, position + 1, Len(lines))

\* the base source with one such line before, between or after its lines
MalformedRawfiles ==
    {File(InsertAt(BaseRawfile.data, position, BadLine(kind))) :
        position \in 0..Len(BaseRawfile.data),
        kind \in {"invalid_json", "not_object", "entry"}}

\* decomposition strings as the source may spell them: markers anywhere,
\* whitespace, repeated glyphs, a single glyph, markers only
RawStrings == SeqsUpTo({"idc", " ", "ren", "jiong"}, MaxRaw)

\* a source with one entry, for huo, spelled in each of these ways
SpelledRawfiles ==
    {File(<<[kind |-> "entry", character |-> "huo", decomposition |-> d]>>) :
        d \in RawStrings}

\* sources in which a substitution key (gunCn) is met below the missing qi,
\* with or without raw entries for the key and for its substitute gun
SubstitutionRawfiles ==
    {File(<<Line("huo", <<"qi", "ren">>), Line("qi", <<"gunCn", "ren">>),
            Line("jiong", <<"gunCn", "zhe">>)>> \o key \o substitute) :
        key        \in OptionalLine("gunCn", {<<"ren", "ren">>}),
        substitute \in OptionalLine("gun", {<<"ren", "ren">>})}

\* the vocabularies these are resolved in: with gunCn, without gun
SubstitutionRadkfiles ==
    VocabularyRadkfiles
    \cup {File(RadkDict({"ren", "rou", "huo"}, RadkInfo(<<2>>, <<<<>>>>)))}

\* a vocabulary that holds rou and jiong but not ren, which leaves the
\* manual list of rou with a single glyph, and sources that give rou, or
\* not, a raw entry generic resolution could store
ShortManualKradfile == File(<<KradEntry("rou", <<"jiong">>)>>)

ShortManualRadkfile ==
    File([r \in {"rou", "jiong", "gun", "huo"} |-> RadkInfo(<<3>>, <<>>)])

ShortManualRawfiles ==
    {File(rou \o <<Line("huo", <<"jiong", "gunCn">>),
                   Line("jiong", <<"gunCn", "zhe">>)>>) :
        rou \in OptionalLine("rou", {<<"jiong", "gunCn">>})}

Snapshots ==
    (KradSnapshots \X RadkSnapshots \X {BaseRawfile, LongRawfile, NoFile})
    \cup ({BaseKradfile}
              \X {File(RadkDict(FullVocabulary, RadkInfo(<<2>>, <<<<>>>>)))}
              \X MalformedRawfiles)
    \cup ({BaseKradfile} \X VocabularyRadkfiles \X RawSnapshots)
    \cup ({BaseKradfile}
              \X {File(RadkDict(FullVocabulary, RadkInfo(<<2>>, <<<<>>>>)))}
              \X SpelledRawfiles)
    \cup ({BaseKradfile} \X SubstitutionRadkfiles \X SubstitutionRawfiles)
    \cup ({ShortManualKradfile} \X {ShortManualRadkfile} \X ShortManualRawfiles)

Selections == SeqsUpTo(SelRadicals, MaxSel)

----------------------------------------------------------------------------
(* The build and the queries *)

NoDatabase ==
    [exists |-> FALSE, kanji_radical_mapping |-> EmptyMap,
     radical_kanji_mapping |-> EmptyMap,
     radical_decomposition_mapping |-> EmptyMap]

\* the file right after create_database_schema: every table empty
EmptyDatabase == [NoDatabase EXCEPT !.exists = TRUE]

Init ==
    /\ \E snapshot \in Snapshots :
          /\ kradfile = snapshot[1]
          /\ radkfile = snapshot[2]
          /\ makemeahanzi = snapshot[3]
    /\ db = NoDatabase
    /\ phase = "idle"
    /\ error = "none"
    /\ query = NoQuery

\* build_database up to the schema: os.remove of the old file, a new file
StartBuild ==
    /\ phase \in {"idle", "done", "failed"}
    /\ db' = EmptyDatabase
    /\ phase' = "schema"
    /\ error' = "none"
    /\ query' = NoQuery
    /\ UNCHANGED <<kradfile, radkfile, makemeahanzi>>

\* kradfile: load_kradfile_data, populate_kanji_radical_mapping
ProcessKradfile ==
    /\ phase = "schema"
    /\ LET kradfile_data == load_kradfile_data(kradfile)
       IN  db' = IF Truthy(kradfile_data)
                 THEN [db EXCEPT !.kanji_radical_mapping =
                          populate_kanji_radical_mapping(@, kradfile_data.value)]
                 ELSE db
    /\ phase' = "kradfile"
    /\ query' = NoQuery
    /\ UNCHANGED <<kradfile, radkfile, makemeahanzi, error>>

\* radkfile load and the radical -> kanji mapping
BuildRadicalMapping ==
    /\ phase = "kradfile"
    /\ LET kradfile_data == load_kradfile_data(kradfile)
           radkfile_data == load_radkfile_data(radkfile)
       IN  db' = IF Truthy(kradfile_data)
                 THEN [db EXCEPT !.radical_kanji_mapping =
                          populate_radical_kanji_mapping_from_kradfile(
                              @, kradfile_data.value, radkfile_data)]
                 ELSE IF Truthy(radkfile_data)
                 THEN [db EXCEPT !.radical_kanji_mapping =
                          populate_radical_kanji_mapping(@, radkfile_data.value)]
                 ELSE db
    /\ phase' = "radicals"
    /\ query' = NoQuery
    /\ UNCHANGED <<kradfile, radkfile, makemeahanzi, error>>

\* POST-PROCESSING: kanji lists overridden from radkfile
PostProcessRadkfile ==
    /\ phase = "radicals"
    /\ LET radkfile_data == load_radkfile_data(radkfile)
       IN  db' = IF Truthy(radkfile_data)
                 THEN [db EXCEPT !.radical_kanji_mapping =
                          PostProcess(@, radkfile_data.value)]
                 ELSE db
    /\ phase' = "postprocessed"
    /\ query' = NoQuery
    /\ UNCHANGED <<kradfile, radkfile, makemeahanzi, error>>

\* variant: the stage gives every key of the raw source a row of the
\* inverse index as well
ProcessDecomposition_AddsRadicals ==
    /\ phase = "postprocessed"
    /\ LET decomposition_data == load_makemeahanzi_decomposition_data(makemeahanzi)
           existing_radicals == DOMAIN db.radical_kanji_mapping
           populated == populate_radical_decomposition_mapping(
                            db.radical_decomposition_mapping,
                            decomposition_data, existing_radicals)
       IN  IF DOMAIN decomposition_data = {} \/ ~populated.ok
           THEN db' = db
           ELSE db' = [db EXCEPT
                          !.radical_decomposition_mapping = populated.table,
                          !.radical_kanji_mapping =
                              @ @@ [r \in DOMAIN decomposition_data |->
                                       [stroke_count |-> 1, kanji_list |-> <<>>]]]
    /\ phase' = "decomposition"
    /\ query' = NoQuery
    /\ UNCHANGED <<kradfile, radkfile, makemeahanzi, error>>

\* RADICAL DECOMPOSITION: load makemeahanzi, read the vocabulary, populate
ProcessDecomposition ==
    /\ phase = "postprocessed"
    /\ LET decomposition_data == load_makemeahanzi_decomposition_data(makemeahanzi)
           cursor_bound == Truthy(load_kradfile_data(kradfile))
                           \/ Truthy(load_radkfile_data(radkfile))
           existing_radicals == DOMAIN db.radical_kanji_mapping
           populated == populate_radical_decomposition_mapping(
                            db.radical_decomposition_mapping,
                            decomposition_data, existing_radicals)
       IN  IF DOMAIN decomposition_data = {}
           THEN /\ db' = db
                /\ phase' = "decomposition"
                /\ error' = error
           ELSE IF ~cursor_bound
           THEN /\ db' = db
                /\ phase' = "failed"
                /\ error' = "UnboundLocalError"
           ELSE IF ~populated.ok
           THEN /\ db' = db
                /\ phase' = "failed"
                /\ error' = "RecursionError"
           ELSE /\ db' = [db EXCEPT !.radical_decomposition_mapping =
                             populated.table]
                /\ phase' = "decomposition"
                /\ error' = error
    /\ query' = NoQuery
    /\ UNCHANGED <<kradfile, radkfile, makemeahanzi>>

\* the dictionary stages that follow; without JMdict data the build gives up
FinishBuild ==
    /\ phase = "decomposition"
    /\ \E jmdict_loaded \in BOOLEAN :
          IF jmdict_loaded
          THEN phase' = "done" /\ error' = error
          ELSE phase' = "failed" /\ error' = "NoJMdict"
    /\ query' = NoQuery
    /\ UNCHANGED <<kradfile, radkfile, makemeahanzi, db>>

\* variant: the script deletes the edges it has read
QueryAndroid_DeletesEdges ==
    /\ query = NoQuery
    /\ \E selected_radicals \in Selections :
          query' = debug_android_search(db, selected_radicals)
    /\ db' = [db EXCEPT !.radical_decomposition_mapping = EmptyMap]
    /\ UNCHANGED <<kradfile, radkfile, makemeahanzi, phase, error>>

\* a run of one of the scripts against the file at the output path; its
\* outcome depends on db and the selection alone, so a run is taken from a
\* state in which no outcome is on record
QueryAndroid ==
    /\ query = NoQuery
    /\ \E selected_radicals \in Selections :
          query' = debug_android_search(db, selected_radicals)
    /\ UNCHANGED <<kradfile, radkfile, makemeahanzi, db, phase, error>>

QueryFinalMeat ==
    /\ query = NoQuery
    /\ \E selected_radicals \in Selections :
          query' = test_final_meat_search(db, selected_radicals)
    /\ UNCHANGED <<kradfile, radkfile, makemeahanzi, db, phase, error>>

QueryHierarchical ==
    /\ query = NoQuery
    /\ \E selected_radicals \in Selections :
          query' = test_hierarchical_search(db, selected_radicals)
    /\ UNCHANGED <<kradfile, radkfile, makemeahanzi, db, phase, error>>

Next ==
    \/ StartBuild
    \/ ProcessKradfile
    \/ BuildRadicalMapping
    \/ PostProcessRadkfile
    \/ ProcessDecomposition
    \/ FinishBuild
    \/ QueryAndroid
    \/ QueryFinalMeat
    \/ QueryHierarchical

Spec == Init /\ [][Next]_vars

\* the build alone, without a reader of the database
BuildNext ==
    \/ StartBuild
    \/ ProcessKradfile
    \/ BuildRadicalMapping
    \/ PostProcessRadkfile
    \/ ProcessDecomposition
    \/ FinishBuild

BuildSpec == Init /\ [][BuildNext]_vars

----------------------------------------------------------------------------
(* The relations of the index, read back from the database *)

\* canonical radical vocabulary: the radicals of the inverse index
Vocabulary == DOMAIN db.radical_kanji_mapping

\* composite radicals with a stored decomposition edge
Composites == DOMAIN db.radical_decomposition_mapping

\* the component list of a stored edge
StoredComponents(radical) ==
    SplitStrip(db.radical_decomposition_mapping[radical].components)

\* InverseCompositionIndex[x]: the stored character bucket of x
Bucket(x) ==
    IF x \in Vocabulary
    THEN Range(SplitStrip(db.radical_kanji_mapping[x].kanji_list)) \ {""}
    ELSE {}

\* expand(r): r plus every composite whose stored edge lists r
Expand(r) == {r} \cup {x \in Composites : r \in Range(StoredComponents(x))}

\* satisfied(r)
Satisfied(r) == UNION {Bucket(x) : x \in Expand(r)}

\* the raw decomposition source as the builder loads it
decomposition_data == load_makemeahanzi_decomposition_data(makemeahanzi)

\* composition(k) of the composition snapshot
CompositionEntries ==
    IF kradfile.exists THEN Range(kradfile.data) ELSE {}

QueryRan == query.status \notin {"none", "not_found", "decomposition_missing"}

----------------------------------------------------------------------------
(* C1 *)

\* the intersection of satisfied(r) over the selected radicals
QueryContract(selected) ==
    {k \in Satisfied(selected[1]) :
        \A i \in DOMAIN selected : k \in Satisfied(selected[i])}

AndroidQueryIsIntersection ==
    (QueryRan /\ query.script = "debug_android_search") =>
        (query.status = "ok" /\ query.result = QueryContract(query.selected))

\* test_final_meat_search meets the contract when exactly two radicals
\* are selected
FinalMeatQueryOfTwoIsIntersection ==
    (QueryRan /\ query.script = "test_final_meat_search"
        /\ Len(query.selected) = 2) =>
        (query.status = "ok" /\ query.result = QueryContract(query.selected))

----------------------------------------------------------------------------
(* C2 *)

BuiltIndex == phase \in {"decomposition", "done"}

\* what the decomposition source, once loaded, says a glyph is made of: the
\* manual list when there is one, else the raw entry
SourceComponents(c) ==
    IF DOMAIN decomposition_data = {} THEN <<>>
    ELSE IF c \in DOMAIN manual_corrections THEN manual_corrections[c]
    ELSE IF c \in DOMAIN decomposition_data THEN decomposition_data[c]
    ELSE <<>>

Canonical(c) ==
    IF c \in DOMAIN chinese_to_japanese_substitutions
    THEN chinese_to_japanese_substitutions[c] ELSE c

\* r occurs in the decomposition of c at some nesting depth, through
\* intermediates of any kind
RECURSIVE NestedIn(_, _, _)
NestedIn(r, c, fuel) ==
    /\ fuel > 0
    /\ \E d \in Range(SourceComponents(c)) :
          Canonical(d) = r \/ NestedIn(r, d, fuel - 1)

\* r occurs in the component list at some nesting depth, every intermediate
\* on the way being absent from the vocabulary: a substitution key stands
\* for its substitute, a missing raw-source key for its own entry (bing for
\* its fixed expansion), anything else for itself
RECURSIVE ThroughMissing(_, _, _)
ThroughMissing(r, components, fuel) ==
    \E i \in DOMAIN components :
        LET c == components[i]
        IN  IF c \in DOMAIN chinese_to_japanese_substitutions
            THEN chinese_to_japanese_substitutions[c] = r
            ELSE IF c \notin Vocabulary /\ c \in DOMAIN decomposition_data
            THEN IF c = "bing" THEN r = "ren"
                 ELSE fuel > 0
                      /\ ThroughMissing(r, decomposition_data[c], fuel - 1)
            ELSE c = r

NestingBound == Cardinality(DOMAIN decomposition_data) + 1

\* X is found by the one pass for r, with every character of its bucket
CapturedBy(r, X) ==
    /\ X \in ExpansionFor(db.radical_decomposition_mapping, r)
    /\ Bucket(X) \subseteq SatisfiedKanji(db, r)

\* C2 as stated: on a built index, every vocabulary radical X whose
\* decomposition contains r at any nesting depth, through intermediates in
\* or out of the vocabulary, is in expand(r), and its characters are in
\* satisfied(r)
C2_SinglePassComplete ==
    BuiltIndex =>
        \A r \in Vocabulary : \A X \in Vocabulary :
            NestedIn(r, X, NestingBound) => CapturedBy(r, X)

\* C2 amended: on a built index, every radical X with a generically
\* resolved stored edge whose raw decomposition contains the vocabulary
\* radical r through intermediates that are all absent from the vocabulary
\* is in expand(r), and its characters are in satisfied(r)
C2_CompleteThroughMissing ==
    \A X \in Composites \ DOMAIN manual_corrections : \A r \in Vocabulary :
        ThroughMissing(r, decomposition_data[X], NestingBound)
            => CapturedBy(r, X)

\* huo is stored with gun nested below the missing qi, and a query for gun
\* has found the character huo through it
C2_Witness ==
    /\ phase = "done"
    /\ "huo" \in Composites
    /\ "qi" \in Range(decomposition_data["huo"])
    /\ "qi" \notin Vocabulary
    /\ "gun" \notin Range(decomposition_data["huo"])
    /\ ThroughMissing("gun", decomposition_data["huo"], NestingBound)
    /\ query.script = "debug_android_search"
    /\ query.selected = <<"gun">>
    /\ "huo" \in query.result

----------------------------------------------------------------------------
(* C3 *)

\* the fixture of Scenario A
ScenarioA ==
    /\ {"gun", "ren", "jiong", "rou"} \subseteq Vocabulary
    /\ {"rou", "jiong"} \subseteq Composites
    /\ StoredComponents("rou") = <<"jiong", "ren", "ren">>
    /\ StoredComponents("jiong") = <<"gun">>

ScenarioAQuery ==
    /\ ScenarioA
    /\ query.status = "ok"
    /\ query.selected = <<"gun", "ren">>

\* C3 as stated: under the fixture query({gun, ren}) includes rou, whatever
\* composition relation the build stored
C3_ScenarioA == ScenarioAQuery => "rou" \in query.result

\* C3 amended: under the fixture query({gun, ren}) includes rou whenever
\* the stored inverse index lists rou under gun or jiong and under ren or rou
C3_ScenarioAWhenListed ==
    (/\ ScenarioAQuery
     /\ "rou" \in Bucket("gun") \cup Bucket("jiong")
     /\ "rou" \in Bucket("ren") \cup Bucket("rou"))
        => "rou" \in query.result

\* the query found rou although rou is not listed under gun itself
C3_Witness ==
    /\ ScenarioAQuery
    /\ "rou" \notin Bucket("gun")
    /\ "rou" \in Bucket("jiong")
    /\ "rou" \in Bucket("ren")
    /\ "rou" \in query.result

----------------------------------------------------------------------------
(* C4, C5, C10 *)

\* C4 as stated: no component of a stored edge is itself the radical of a
\* stored edge
C4_EdgesFlat ==
    \A R \in Composites : \A c \in Range(StoredComponents(R)) :
        c \notin Composites

\* C4 amended: no component of a stored edge is a glyph the builder
\* resolves away, that is a substitution-map key or a glyph outside the
\* vocabulary that the raw source decomposes; a component in the vocabulary
\* stays even when it has a stored edge of its own
C4_ComponentsResolved ==
    \A R \in Composites : \A c \in Range(StoredComponents(R)) :
        /\ c \notin DOMAIN chinese_to_japanese_substitutions
        /\ ~(c \notin Vocabulary /\ c \in DOMAIN decomposition_data)

\* jiong is stored as the substitute of the gunCn its raw entry lists, in
\* a vocabulary that holds gunCn too
C4_Witness ==
    /\ BuiltIndex
    /\ "jiong" \in Composites
    /\ "gunCn" \in Range(decomposition_data["jiong"])
    /\ "gunCn" \in Vocabulary
    /\ StoredComponents("jiong") = <<"gun">>

\* C5: every component of every stored edge is in the vocabulary, for
\* manual and generic edges alike
C5_ComponentsInVocabulary ==
    \A R \in Composites : \A c \in Range(StoredComponents(R)) :
        c \in Vocabulary

\* a manual edge and a generic edge are stored, each after losing a
\* component that is not in the vocabulary
C5_Witness ==
    /\ BuiltIndex
    /\ \E R \in Composites \cap DOMAIN manual_corrections :
          Len(StoredComponents(R)) < Len(manual_corrections[R])
    /\ \E R \in Composites \ DOMAIN manual_corrections :
          Len(StoredComponents(R))
              < Len(GenericExpanded(R, decomposition_data, Vocabulary).out)

\* C10: a stored edge has at least 2 components, or at least 1 when its
\* radical is jiong or huoRad; none is empty
C10_MinimumComponents ==
    \A R \in Composites :
        LET row == db.radical_decomposition_mapping[R]
        IN  /\ row.components /= <<>>
            /\ "" \notin Range(StoredComponents(R))
            /\ Len(StoredComponents(R))
                   >= (IF R \in {"jiong", "huoRad"} THEN 1 ELSE 2)

\* jiong is stored with one component beside an edge of two or more, and a
\* candidate left with a single valid component was discarded
C10_Witness ==
    /\ BuiltIndex
    /\ "jiong" \in Composites
    /\ Len(StoredComponents("jiong")) = 1
    /\ \E R \in Composites : Len(StoredComponents(R)) >= 2
    /\ \E R \in GenericCandidates(decomposition_data, Vocabulary) \ Composites :
          Len(GenericValid(R, decomposition_data, Vocabulary)) = 1

----------------------------------------------------------------------------
(* C6, C7 *)

PostProcessed == phase \in {"postprocessed", "decomposition", "done"}

\* the transpose of the composition snapshot at r
Transpose(r) ==
    {entry.kanji : entry \in {e \in CompositionEntries : r \in Range(e.components)}}

\* the character list the stroke-count snapshot carries for r, if any
RadkfileKanji(r) ==
    IF radkfile.exists /\ r \in DOMAIN radkfile.data
    THEN InfoGet(radkfile.data[r], "kanji", <<>>)
    ELSE <<>>

\* C6: on a completed build every character k of the composition snapshot
\* is in satisfied(r) for every radical r listed in composition(k), whatever
\* the stroke-count snapshot holds
C6_InversionRoundTrip ==
    phase = "done" =>
        \A entry \in CompositionEntries : \A r \in Range(entry.components) :
            entry.kanji \in Satisfied(r)

----------------------------------------------------------------------------
(* C8, C9 *)

\* C8: the decomposition builder runs to its end for every raw source,
\* also when a glyph outside the vocabulary decomposes back into itself:
\* no build is cut short by the recursion of the expansion
C8_BuilderTerminates == error /= "RecursionError"

\* C9: the index a reader finds at the output path changes only in the
\* step that completes a build, so the reader sees the complete previous
\* index or the complete next one, and a failed build leaves the previous
\* index in place
C9_AtomicSwap == [][db' /= db => phase' = "done"]_vars

----------------------------------------------------------------------------
(* C11 *)

\* the well-formed lines of the raw source file, before the loader selects
WellFormedLines ==
    IF makemeahanzi.exists
    THEN {l \in Range(makemeahanzi.data) :
             l.kind = "entry" /\ l.character /= "" /\ l.decomposition /= <<>>}
    ELSE {}

\* the characters the raw source file has a decomposition for
RawKeys == {l.character : l \in WellFormedLines}

\* the components the raw source file lists for a character
RawComponents(R) ==
    parse_makemeahanzi_decomposition(
        (CHOOSE l \in WellFormedLines : l.character = R).decomposition)

\* the component list of R after substitution, expansion and the
\* vocabulary drop, or the manual list after the drop
FinalComponents(R) ==
    IF R \in DOMAIN manual_corrections
    THEN Filter(manual_corrections[R], Vocabulary)
    ELSE Filter(apply_substitutions_and_expansion(RawComponents(R),
                    decomposition_data, Vocabulary, 1).out, Vocabulary)

MeetsPolicy(R, components) ==
    Len(components) >= (IF R \in {"jiong", "huoRad"} THEN 1 ELSE 2)

\* C11: after a build that ran the decomposition stage to its end, every
\* key of the raw source that is in the vocabulary and whose final
\* component list meets the minimum-components policy has that list stored
\* as its edge, an allow-listed radical with a single raw component included
C11_PolicyEdgesStored ==
    (BuiltIndex /\ error = "none") =>
        \A R \in RawKeys \cap Vocabulary :
            MeetsPolicy(R, FinalComponents(R)) =>
                R \in Composites /\ StoredComponents(R) = FinalComponents(R)

\* C11 amended: the same for the keys the loader keeps, the raw entries
\* with two components or more; a raw entry with a single component is
\* dropped on loading and gets no edge, allow-listed or not
C11_LoadedPolicyEdgesStored ==
    (BuiltIndex /\ error = "none") =>
        \A R \in DOMAIN decomposition_data \cap Vocabulary :
            MeetsPolicy(R, FinalComponents(R)) =>
                R \in Composites /\ StoredComponents(R) = FinalComponents(R)

\* jiong, loaded with two raw components, is stored with the one the
\* vocabulary knows, beside a generic edge of two components
C11_Witness ==
    /\ BuiltIndex /\ error = "none"
    /\ "jiong" \in DOMAIN decomposition_data \cap Vocabulary
    /\ Len(RawComponents("jiong")) = 2
    /\ Len(FinalComponents("jiong")) = 1
    /\ "jiong" \in Composites
    /\ StoredComponents("jiong") = FinalComponents("jiong")
    /\ \E R \in Composites \ DOMAIN manual_corrections :
          R /= "jiong" /\ StoredComponents(R) = FinalComponents(R)

----------------------------------------------------------------------------
(* C12 *)

\* what the generic resolver would make of the raw entry of R
GenericResolution(R) ==
    Filter(apply_substitutions_and_expansion(RawComponents(R),
               decomposition_data, Vocabulary, 1).out, Vocabulary)

\* C12: the stored edge of a radical with a manual-correction entry holds
\* only glyphs of its manual list, whatever the raw source says about the
\* radical: the generic pass neither inserts nor replaces an edge for it
C12_ManualNeverGeneric ==
    \A R \in DOMAIN manual_corrections :
        IF R \in Composites
        THEN Range(StoredComponents(R)) \subseteq Range(manual_corrections[R])
        ELSE BuiltIndex =>
                 \/ R \notin Vocabulary
                 \/ DOMAIN decomposition_data = {}
                 \/ Cardinality({i \in DOMAIN manual_corrections[R] :
                        manual_corrections[R][i] \in Vocabulary}) < 2

\* rou is stored from its manual list although the raw source has an
\* entry for it that resolves to a glyph the manual list does not hold
C12_Witness ==
    /\ BuiltIndex
    /\ "rou" \in Composites
    /\ "rou" \in DOMAIN decomposition_data
    /\ Len(GenericResolution("rou")) >= 2
    /\ "gun" \in Range(GenericResolution("rou"))
    /\ "gun" \notin Range(StoredComponents("rou"))

----------------------------------------------------------------------------
(* C13 *)

\* the manual list without the glyphs the vocabulary lacks, in its order
\* and with its repeats
ManualKept(R) ==
    SelectSeq(manual_corrections[R], LAMBDA c : c \in Vocabulary)

\* C13 as stated: the components of a stored edge of a manually corrected
\* radical equal its manual list exactly, in order and with repeats; no
\* vocabulary drop is applied to it
C13_ManualListExact ==
    \A R \in Composites \cap DOMAIN manual_corrections :
        StoredComponents(R) = manual_corrections[R]

\* C13 amended: neither substitution nor expansion is applied to a manual
\* list, but the vocabulary drop is: the components of the stored edge are
\* the glyphs of the manual list that are in the vocabulary, in the order
\* of the list and with its repeats, and component_count is their number
C13_ManualListFiltered ==
    \A R \in Composites \cap DOMAIN manual_corrections :
        /\ StoredComponents(R) = ManualKept(R)
        /\ db.radical_decomposition_mapping[R].component_count
               = Len(ManualKept(R))

\* rou is stored without the jiong of its manual list, which the
\* vocabulary lacks, and with ren twice
C13_Witness ==
    /\ BuiltIndex
    /\ "rou" \in Composites
    /\ "jiong" \notin Vocabulary
    /\ StoredComponents("rou") = <<"ren", "ren">>

----------------------------------------------------------------------------
(* C14 *)

\* C14 as stated: every radical with a stored edge is a key of the raw
\* decomposition source and a member of the vocabulary
C14_EdgesFromRawSource ==
    \A R \in Composites : R \in RawKeys /\ R \in Vocabulary

\* C14 amended: every radical with a stored edge is a member of the
\* vocabulary and is a key of the loaded raw source or has a
\* manual-correction entry; a manual edge needs no raw entry
C14_EdgesFromRawOrManual ==
    \A R \in Composites :
        /\ R \in Vocabulary
        /\ R \in DOMAIN decomposition_data \/ R \in DOMAIN manual_corrections

\* rou is stored from its manual list although the raw source has no
\* entry for it, beside an edge that comes from a raw entry
C14_Witness ==
    /\ BuiltIndex
    /\ "rou" \in Composites
    /\ "rou" \notin RawKeys
    /\ \E R \in Composites : R \in DOMAIN decomposition_data

----------------------------------------------------------------------------
(* C15, C16 *)

\* the outcome of a script of the repository on the current database
RunScript(script, selected_radicals) ==
    CASE script = "debug_android_search" ->
             debug_android_search(db, selected_radicals)
      [] script = "test_final_meat_search" ->
             test_final_meat_search(db, selected_radicals)
      [] script = "test_hierarchical_search" ->
             test_hierarchical_search(db, selected_radicals)

\* the selections that list the same distinct radicals as the one queried
SameRadicals(selected) ==
    {other \in Selections : Range(other) = Range(selected)}

SameOutcome(q1, q2) == q1.status = q2.status /\ q1.result = q2.result

AndroidSelectionIsSet ==
    (phase = "done" /\ QueryRan /\ query.script = "debug_android_search") =>
        \A other \in SameRadicals(query.selected) :
            SameOutcome(RunScript(query.script, other), query)

\* r has no row in the inverse index and is listed by no stored edge
Absent(r) ==
    /\ r \notin Vocabulary
    /\ \A R \in Composites : r \notin Range(StoredComponents(R))

\* C16: on a built index a query whose selection holds a radical without a row in the
\* inverse index and outside every stored edge has an empty satisfied set
\* for that radical and returns the empty set as a normal result
C16_AbsentRadicalEmptyResult ==
    (phase = "done" /\ QueryRan) =>
        \A i \in DOMAIN query.selected :
            Absent(query.selected[i]) =>
                /\ SatisfiedKanji(db, query.selected[i]) = {}
                /\ query.status = "ok"
                /\ query.result = {}

AndroidAbsentRadicalEmptyResult ==
    (QueryRan /\ query.script = "debug_android_search") =>
        \A i \in DOMAIN query.selected :
            Absent(query.selected[i]) =>
                /\ SatisfiedKanji(db, query.selected[i]) = {}
                /\ query.status = "ok"
                /\ query.result = {}

----------------------------------------------------------------------------
(* C17 *)

\* the edges a later statement may store over the table as it stands
EdgeRadicals == {"rou", "jiong", "huo"}
EdgeLists == SeqsUpTo({"gun", "ren", "jiong"}, MaxComps)

WithEdge(R, components) ==
    InsertOrReplace(db.radical_decomposition_mapping, R,
                    DecompositionRow(components))

\* (the table is the same in the states that differ by a script's outcome)
\* C17: storing one more edge R -> [..., r, ...], over an earlier edge of
\* R or not, removes no member from expand(r): expand(r) after the
\* statement is a superset of expand(r) before it
C17_ExpansionMonotone ==
    query = NoQuery =>
        \A R \in EdgeRadicals : \A components \in EdgeLists :
            \A r \in Range(components) :
                ExpansionFor(db.radical_decomposition_mapping, r)
                    \subseteq ExpansionFor(WithEdge(R, components), r)

\* the build has stored the edge of rou, which lists ren, and replacing
\* the stored edge of jiong by one that lists ren adds jiong to expand(ren)
\* and keeps rou in it
C17_Witness ==
    /\ BuiltIndex
    /\ {"rou", "jiong"} \subseteq Composites
    /\ ExpansionFor(db.radical_decomposition_mapping, "ren") = {"ren", "rou"}
    /\ ExpansionFor(WithEdge("jiong", <<"ren", "gun">>), "ren")
           = {"ren", "rou", "jiong"}

----------------------------------------------------------------------------
(* C18 *)

\* the decomposition builder run on the sources of this build over a table
Rebuilt(table) ==
    populate_radical_decomposition_mapping(table, decomposition_data, Vocabulary)

DecompositionStageRan ==
    BuiltIndex /\ error = "none" /\ DOMAIN decomposition_data /= {}

\* C18: the decomposition builder run again on the same raw source and
\* vocabulary, on a fresh table or over its own output, stores the very
\* edges the build stored, with the same component order and counts
C18_IdempotentBuild ==
    (DecompositionStageRan /\ query = NoQuery) =>
        /\ Rebuilt(EmptyMap).ok
        /\ Rebuilt(EmptyMap).table = db.radical_decomposition_mapping
        /\ Rebuilt(db.radical_decomposition_mapping).ok
        /\ Rebuilt(db.radical_decomposition_mapping).table
               = db.radical_decomposition_mapping

\* the build has stored a manual edge and generic edges of resolved
\* components, the table a second run goes over
C18_Witness ==
    /\ DecompositionStageRan
    /\ "rou" \in Composites
    /\ \E R \in Composites \ DOMAIN manual_corrections :
          StoredComponents(R) /= RawComponents(R)
    /\ Rebuilt(db.radical_decomposition_mapping).table
           = db.radical_decomposition_mapping

----------------------------------------------------------------------------
(* C19 *)

\* a line the loader cannot take an entry from
Malformed(line) ==
    line.kind /= "entry" \/ line.character = "" \/ line.decomposition = <<>>

\* the raw source file without its malformed lines
WithoutMalformed ==
    [makemeahanzi EXCEPT !.data = SelectSeq(@, LAMBDA line : ~Malformed(line))]

HasMalformed(kind) ==
    /\ makemeahanzi.exists
    /\ \E i \in DOMAIN makemeahanzi.data :
          Malformed(makemeahanzi.data[i]) /\ makemeahanzi.data[i].kind = kind

\* C19: a malformed line of any kind is skipped on its own: the data the
\* build loads from the raw source, and the edges it stores, are those of
\* the source without its malformed lines
C19_MalformedLineSkipped ==
    BuiltIndex =>
        LET clean == load_makemeahanzi_decomposition_data(WithoutMalformed)
        IN  /\ decomposition_data = clean
            /\ db.radical_decomposition_mapping
                   = IF DOMAIN clean = {} THEN EmptyMap
                     ELSE populate_radical_decomposition_mapping(
                              EmptyMap, clean, Vocabulary).table

\* it holds for the lines json.loads rejects and for the objects that lack
\* a field
UnparseableLineSkipped ==
    (BuiltIndex /\ ~HasMalformed("not_object")) =>
        decomposition_data
            = load_makemeahanzi_decomposition_data(WithoutMalformed)

----------------------------------------------------------------------------
(* C20 *)

CompositionMissing == ~Truthy(load_kradfile_data(kradfile))
StrokeCountsMissing == ~Truthy(load_radkfile_data(radkfile))

\* the radical -> kanji stage of the build is behind
RadicalsBuilt ==
    phase \in {"radicals", "postprocessed", "decomposition", "done"}

----------------------------------------------------------------------------
(* C21 *)

\* the radicals some composition of the composition snapshot lists
CompositionRadicals ==
    UNION {Range(entry.components) : entry \in CompositionEntries}

\* the radicals only the stroke-count snapshot knows
RadkfileOnly ==
    IF radkfile.exists THEN DOMAIN radkfile.data \ CompositionRadicals ELSE {}

\* the stroke count the stroke-count snapshot carries for r, 0 without one
RadkfileStrokeCount(r) == InfoGet(radkfile.data[r], "strokeCount", 0)

----------------------------------------------------------------------------
(* C22 *)

\* the stroke-count snapshot has no stroke count for r: r is not in it, or
\* its entry carries none
NoStrokeCount(r) ==
    \/ ~radkfile.exists
    \/ r \notin DOMAIN radkfile.data
    \/ radkfile.data[r].strokeCount = <<>>

StoredStrokeCount(r) == db.radical_kanji_mapping[r].stroke_count

\* C22: on a completed build every radical without a stroke count in the
\* stroke-count snapshot, absent from it or present without the field, is
\* stored with one and the same default value, and that value is not 0
C22_DefaultStrokeCountSentinel ==
    (phase = "done" /\ ~CompositionMissing) =>
        \A r \in Vocabulary :
            NoStrokeCount(r) =>
                /\ StoredStrokeCount(r) /= 0
                /\ \A other \in Vocabulary :
                       NoStrokeCount(other) =>
                           StoredStrokeCount(other) = StoredStrokeCount(r)

\* a radical the stroke-count snapshot does not list gets the default 1 of
\* the lookup in radical_stroke_counts
AbsentRadicalDefaultsToOne ==
    (RadicalsBuilt /\ ~CompositionMissing) =>
        \A r \in Vocabulary :
            (~radkfile.exists \/ r \notin DOMAIN radkfile.data)
                => StoredStrokeCount(r) = 1

----------------------------------------------------------------------------
(* C23 *)

\* the characters field of the row of r, as a list
StoredCharacters(r) ==
    IF db.radical_kanji_mapping[r].kanji_list = <<>> THEN <<>>
    ELSE SplitStrip(db.radical_kanji_mapping[r].kanji_list)

\* a list in ascending code-point order that lists nothing twice
SortedSet(list) ==
    \A i \in DOMAIN list : \A j \in DOMAIN list :
        i < j => CodePoint[list[i]] < CodePoint[list[j]]

\* C23: at the end of every build the characters field of every row of
\* the inverse index is a sorted list with each character listed once,
\* for the rows of radicals of the stroke-count snapshot and for the rows
\* of radicals that repeat inside one composition as well
C23_CharactersSortedSet ==
    phase = "done" => \A r \in Vocabulary : SortedSet(StoredCharacters(r))

\* the lists are in ascending order, repeats aside, as long as the
\* stroke-count snapshot carries no character list
InversionListsSorted ==
    (phase = "done" /\ \A r \in Vocabulary : RadkfileKanji(r) = <<>>) =>
        \A r \in Vocabulary :
            \A i \in DOMAIN StoredCharacters(r) :
                \A j \in DOMAIN StoredCharacters(r) :
                    i < j => CodePoint[StoredCharacters(r)[i]]
                                 <= CodePoint[StoredCharacters(r)[j]]

----------------------------------------------------------------------------
(* C24 *)

\* the outcome on record is the outcome of the same query run again now
RepeatedQuerySameResult ==
    query /= NoQuery => RunScript(query.script, query.selected) = query

\* a step that puts a query outcome on record leaves the database and the
\* source snapshots as they were
QueryStepReadsOnly ==
    query' /= NoQuery =>
        UNCHANGED <<db, kradfile, radkfile, makemeahanzi, phase, error>>

\* C24: a query performs no mutation: a query step leaves the composition
\* relation, the inverse index and the decomposition edges unchanged, and
\* the same query repeated on the index returns the same result
C24_QueryNoMutation == []RepeatedQuerySameResult /\ [][QueryStepReadsOnly]_vars

\* a query on a completed build with stored edges has returned characters
C24_Witness ==
    /\ phase = "done"
    /\ Composites /= {}
    /\ query.status = "ok"
    /\ query.result /= {}
    /\ RunScript(query.script, query.selected) = query

----------------------------------------------------------------------------
(* C25 *)

\* the raw decomposition strings of the source file, the empty one included
RawDecompositions ==
    IF makemeahanzi.exists
    THEN {l.decomposition : l \in {x \in Range(makemeahanzi.data) :
                                      x.kind = "entry"}}
    ELSE {}

\* the positions of a string that hold neither a marker nor whitespace
ComponentPositions(decomposition) ==
    {i \in DOMAIN decomposition :
        decomposition[i] \notin idc_chars /\ decomposition[i] /= " "}

\* the k-th of these positions, from the left
NthPosition(decomposition, k) ==
    CHOOSE p \in ComponentPositions(decomposition) :
        Cardinality({q \in ComponentPositions(decomposition) : q < p}) = k - 1

\* the parser returns the characters at these positions, in their order
\* and as often as they occur
ParsedExactly(decomposition) ==
    LET components == parse_makemeahanzi_decomposition(decomposition)
    IN  /\ Len(components) = Cardinality(ComponentPositions(decomposition))
        /\ \A k \in DOMAIN components :
               components[k] = decomposition[NthPosition(decomposition, k)]

\* C25: parsing a raw decomposition string returns, in their order and
\* with repeats kept, exactly its characters that are neither structural
\* markers nor whitespace, the empty list for the empty string and a
\* one-element list for a single glyph; no marker reaches a stored edge
C25_ParseStripsMarkers ==
    /\ \A decomposition \in RawDecompositions : ParsedExactly(decomposition)
    /\ parse_makemeahanzi_decomposition(<<>>) = <<>>
    /\ \A R \in Composites :
           LET components == db.radical_decomposition_mapping[R].components
           IN  Range(components) \cap (idc_chars \cup {" "}) = {}

\* the source spells huo with a marker between two glyphs, and the build
\* has stored the two glyphs as the edge of huo
C25_Witness ==
    /\ BuiltIndex
    /\ \E decomposition \in RawDecompositions :
          /\ Len(decomposition) = 3
          /\ decomposition[1] \notin idc_chars
          /\ decomposition[2] \in idc_chars
          /\ "huo" \in Composites
          /\ StoredComponents("huo") = <<decomposition[1], decomposition[3]>>

----------------------------------------------------------------------------
(* C26 *)

SubstitutionKeys == DOMAIN chinese_to_japanese_substitutions

\* what the resolver makes of one component at a depth of the recursion
Resolved(comp, depth) ==
    ExpandComponent(comp, decomposition_data, Vocabulary, depth)

\* a raw entry that lists substitution keys and vocabulary glyphs only
PlainEntry(R) ==
    \A i \in DOMAIN decomposition_data[R] :
        \/ decomposition_data[R][i] \in SubstitutionKeys
        \/ decomposition_data[R][i] \in Vocabulary

\* the entry with every substitution key replaced by its mapped glyph
Substituted(components) ==
    [i \in DOMAIN components |-> Canonical(components[i])]

\* C26: during generic resolution a component found in the substitution
\* map is replaced by its mapped glyph at every depth of the recursion and
\* before the vocabulary and the raw source are looked at: also when it is
\* in the vocabulary or has a raw entry of its own, it is not expanded,
\* and the mapped glyph is neither substituted nor expanded again
C26_SubstitutionFirst ==
    /\ \A comp \in SubstitutionKeys : \A depth \in 1..RecursionLimit :
           Resolved(comp, depth)
               = [ok |-> TRUE,
                  out |-> <<chinese_to_japanese_substitutions[comp]>>]
    /\ \A R \in Composites \ DOMAIN manual_corrections :
           PlainEntry(R) =>
               StoredComponents(R)
                   = Filter(Substituted(decomposition_data[R]), Vocabulary)

\* gunCn is in the vocabulary and has a raw entry of its own, its
\* substitute gun has one too; huo is stored with gun, which came in place
\* of the gunCn listed by the missing qi, one level down
C26_Witness ==
    /\ BuiltIndex
    /\ "gunCn" \in Vocabulary
    /\ {"gunCn", "gun", "qi", "huo"} \subseteq DOMAIN decomposition_data
    /\ "qi" \notin Vocabulary
    /\ "qi" \in Range(decomposition_data["huo"])
    /\ "gunCn" \in Range(decomposition_data["qi"])
    /\ "huo" \in Composites
    /\ StoredComponents("huo") = <<"gun", "ren", "ren">>
    /\ "jiong" \in Composites
    /\ StoredComponents("jiong") = <<"gun">>

----------------------------------------------------------------------------
(* C27 *)

\* bing is met as a glyph the vocabulary lacks and the raw source decomposes
IceCase == "bing" \notin Vocabulary /\ "bing" \in DOMAIN decomposition_data

\* the raw entries bing may have, one that lists bing itself included
IceEntries == SeqsUpTo({"bing", "ren", "jiong"}, MaxComps)

\* a raw entry made of bing and of vocabulary glyphs that are no
\* substitution keys
EntryWithIce(R) ==
    /\ "bing" \in Range(decomposition_data[R])
    /\ \A i \in DOMAIN decomposition_data[R] :
          \/ decomposition_data[R][i] = "bing"
          \/ /\ decomposition_data[R][i] \in Vocabulary
             /\ decomposition_data[R][i] \notin SubstitutionKeys

\* the entry with ren, ren in place of every bing
RECURSIVE IceReplaced(_)
IceReplaced(components) ==
    IF components = <<>> THEN <<>>
    ELSE (IF components[1] = "bing" THEN <<"ren", "ren">>
          ELSE <<components[1]>>) \o IceReplaced(Tail(components))

\* C27: bing is exempt from generic recursion: met during resolution
\* while absent from the vocabulary and present as a raw-source key, it
\* contributes exactly ren, ren in place of itself at every depth,
\* whatever its raw entry lists, so an entry of bing that lists bing
\* causes no further recursion
C27_IceExempt ==
    IceCase =>
        /\ LET loaded == decomposition_data
           IN  \A depth \in 1..RecursionLimit :
                   /\ ExpandComponent("bing", loaded, Vocabulary, depth)
                          = [ok |-> TRUE, out |-> <<"ren", "ren">>]
                   /\ \A entry \in IceEntries :
                          ExpandComponent("bing", ("bing" :> entry) @@ loaded,
                                          Vocabulary, depth)
                              = [ok |-> TRUE, out |-> <<"ren", "ren">>]
        /\ \A R \in Composites \ DOMAIN manual_corrections :
               EntryWithIce(R) =>
                   StoredComponents(R)
                       = Filter(IceReplaced(decomposition_data[R]), Vocabulary)

\* the raw entry of bing lists bing, huo lists bing, and the build has
\* ended without error with huo stored as ren, ren and the other glyph
C27_Witness ==
    /\ phase = "done" /\ error = "none"
    /\ IceCase
    /\ "bing" \in Range(decomposition_data["bing"])
    /\ "huo" \in Composites
    /\ EntryWithIce("huo")
    /\ StoredComponents("huo") = <<"ren", "ren", "ren">>

----------------------------------------------------------------------------
(* C28 *)

\* the step of the build that runs the Decomposition Graph Builder
DecompositionStep == phase = "postprocessed" /\ phase' /= phase

\* the step writes decomposition edges only
DecompositionStepFrame ==
    DecompositionStep =>
        /\ db'.exists = db.exists
        /\ db'.kanji_radical_mapping = db.kanji_radical_mapping
        /\ db'.radical_kanji_mapping = db.radical_kanji_mapping
        /\ UNCHANGED <<kradfile, radkfile, makemeahanzi>>
        /\ \A R \in DOMAIN db'.radical_decomposition_mapping :
               /\ R \in DOMAIN db.radical_kanji_mapping
               /\ Range(SplitStrip(db'.radical_decomposition_mapping[R].components))
                      \subseteq DOMAIN db.radical_kanji_mapping

\* edges are written by that step alone, and the inverse index is written
\* by the two stages before it alone; a new build starts from empty tables
StagesInOrder ==
    /\ db'.radical_decomposition_mapping /= db.radical_decomposition_mapping
           => DecompositionStep \/ phase' = "schema"
    /\ db'.radical_kanji_mapping /= db.radical_kanji_mapping
           => phase' \in {"schema", "radicals", "postprocessed"}

\* C28: the Decomposition Graph Builder runs only after the inverse
\* index, stroke-count post-processing included, is complete, takes the
\* radicals of that index as its vocabulary, and leaves the vocabulary,
\* the inverse index and the composition relation unchanged: it writes
\* decomposition edges only and adds no radical to the vocabulary
C28_BuilderWritesEdgesOnly == [][DecompositionStepFrame /\ StagesInOrder]_vars

\* the builder has just stored edges from a raw source that has keys
\* outside the vocabulary, and the vocabulary holds none of them
C28_Witness ==
    /\ phase = "decomposition"
    /\ Composites /= {}
    /\ Composites \subseteq Vocabulary
    /\ DOMAIN decomposition_data \ Vocabulary /= {}
    /\ Vocabulary = CompositionRadicals \cup
                        (IF radkfile.exists THEN DOMAIN radkfile.data ELSE {})

----------------------------------------------------------------------------
(* C29 *)

\* R is manually corrected, in the vocabulary, and its manual list keeps
\* fewer than two glyphs of the vocabulary
ShortManual(R) ==
    /\ R \in DOMAIN manual_corrections
    /\ R \in Vocabulary
    /\ Len(ManualKept(R)) < 2

\* the decomposition stage of the build is behind, completed or not
DecompositionStageOver == phase \in {"decomposition", "done", "failed"}

\* the expansion of some generic candidate ran into the recursion limit
GenericRaised ==
    \E R \in GenericCandidates(decomposition_data, Vocabulary) :
        ~GenericExpanded(R, decomposition_data, Vocabulary).ok

\* C29: a manually corrected radical whose manual list keeps fewer than
\* two components of the vocabulary ends the build with no stored edge,
\* also when generic resolution of its raw entry would give a valid edge;
\* this raises no error, and the other radicals have the edges generic
\* resolution gives them
C29_ShortManualNoEdge ==
    DecompositionStageOver =>
        \A R \in DOMAIN manual_corrections :
            ShortManual(R) =>
                /\ R \notin Composites
                /\ error /= "UnboundLocalError"
                /\ error = "RecursionError" => GenericRaised
                /\ (BuiltIndex /\ DOMAIN decomposition_data /= {}) =>
                       /\ Composites \ DOMAIN manual_corrections
                              = GenericStored(decomposition_data, Vocabulary)
                       /\ \A other \in Composites \ DOMAIN manual_corrections :
                              StoredComponents(other) = FinalComponents(other)

\* rou keeps only jiong of its manual list and has no edge, although its
\* raw entry resolves to two glyphs of the vocabulary; the build is
\* complete and huo and jiong have their generic edges
C29_Witness ==
    /\ phase = "done" /\ error = "none"
    /\ ShortManual("rou")
    /\ "rou" \in DOMAIN decomposition_data
    /\ Len(GenericResolution("rou")) >= 2
    /\ "rou" \notin Composites
    /\ {"huo", "jiong"} \subseteq Composites
    /\ StoredComponents("huo") = GenericResolution("rou")

----------------------------------------------------------------------------
(* C30 *)

\* a selection that lists no radical twice
DuplicateFree(selected) == Cardinality(Range(selected)) = Len(selected)

\* the grouped formulation has run on a completed build with stored
\* edges, for radicals of its vocabulary
GroupedQueryRan ==
    /\ phase = "done"
    /\ Composites /= {}
    /\ QueryRan
    /\ Range(query.selected) \subseteq Vocabulary
    /\ query.script = "test_hierarchical_search"
    /\ DuplicateFree(query.selected)

\* C30: on every built index and for every duplicate-free selection the
\* grouped formulation (test_hierarchical_search) reports success with the
\* same character set as the per-radical formulation
\* (debug_android_search), also when the bucket of a selected radical is
\* empty and only a composite that lists it has characters
C30_FormulationsAgree ==
    GroupedQueryRan =>
        SameOutcome(query, debug_android_search(db, query.selected))

\* whenever the grouped formulation does report success, its character
\* set is that of the per-radical formulation
GroupedAgreesWhenItSucceeds ==
    (GroupedQueryRan /\ query.status = "ok") =>
        SameOutcome(query, debug_android_search(db, query.selected))

====
